---- MODULE Spec2Model ----
(***************************************************************************)
(* Social-media preview generator of stampchain.io                         *)
(* (src/routes/sitemap.xml.ts, second module of the file: lines 70-1194).  *)
(*                                                                         *)
(* Spec     : the GET handler, its 55s race, and the two storage backends  *)
(*            (handleRedisPreview / handleS3Preview) run by concurrent     *)
(*            requests for one stamp identifier.                           *)
(* SpecCF   : one call of renderWithCloudflare, attempt by attempt.        *)
(* SpecEquiv: the two backends fed the same sequence of requests.          *)
(***************************************************************************)
EXTENDS Integers, Sequences, FiniteSets, TLC

(* ------------------------------ bounds --------------------------------- *)
\* number of request slots (each runs the handler once)
NumReqs == 2
\* number of clock advances in one behaviour
MaxTicks == 1
\* number of requests fed to both backends in SpecEquiv
MaxSeq == 3
\* decoded images have sides 1..MaxSmallSide, or one of the sides in EdgeSides
MaxSmallSide == 40

(* --------------------------- program constants ------------------------- *)
FAILED_RENDER_TTL == 3600
HANDLER_TIMEOUT_MS == 55000
maxRetries == 2
retryDelays == <<2000, 4000>>
MIN_VALID_PNG_SIZE == 5000

FALLBACK_LOGO == "https://stampchain.io/img/logo/stampchain-logo-opengraph.jpg"
\* getPreviewUrl(stamp): the CDN address of the stored preview
PreviewUrl == "cdn:/previews/stamp.png"

CACHE_HEADERS ==
  [success  |-> "public, max-age=31536000, immutable",
   redirect |-> "public, max-age=86400",
   error    |-> "no-cache, no-store"]

Reqs == 1..NumReqs

\* Date.now() advances by one of these amounts (milliseconds) per tick:
\* one step below the failure window, and the window itself.
TimeSteps == {FAILED_RENDER_TTL * 1000 - 1, FAILED_RENDER_TTL * 1000}

(* ------------------------ renderPreview (pure) ------------------------- *)
\* A mimetype is <<major, subtype>>; <<"null", "">> is a null mimetype.
Mimes ==
  { <<"image", "png">>, <<"image", "gif">>, <<"image", "webp">>,
    <<"image", "svg+xml">>, <<"text", "html">>, <<"audio", "mpeg">>,
    <<"video", "mp4">>, <<"text", "plain">>, <<"application", "json">>,
    <<"null", "">> }

\* Outcomes of the collaborators during one renderPreview call.
Envs ==
  [ lookup        : {"found", "nourl", "throw"},
    mime          : Mimes,
    fetch         : {"ok", "notok", "throw"},
    decode        : {"ok", "noframes", "throw"},
    foreignObject : BOOLEAN,
    raster        : {"ok", "throw"},
    configured    : BOOLEAN,
    recursive     : BOOLEAN,
    cf1           : {"big", "small", "null"},
    cf2           : {"big", "small", "null"},
    center        : {"ok", "throw"} ]

R(res, trace) == [res |-> res, trace |-> trace]

\* renderWithCloudflare seen from its caller: null when the worker is not
\* configured (no request is sent), else the outcome of the call.
CfCall(e, out) ==
  IF e.configured THEN R(out, <<"cf">>) ELSE R("null", <<>>)

centerOnCanvas(e) ==
  R(IF e.center = "ok" THEN "png" ELSE "throw", <<"center">>)

\* a renderer that posts to the worker and centers whatever bytes come back
ChromeThenCenter(e, out) ==
  LET c == CfCall(e, out) IN
  IF c.res = "null" THEN R("null", c.trace)
  ELSE LET k == centerOnCanvas(e) IN R(k.res, c.trace \o k.trace)

renderImageWithChrome(e) == ChromeThenCenter(e, e.cf1)
renderSvgWithChrome(e)   == ChromeThenCenter(e, e.cf1)
renderVideoPreview(e)    == ChromeThenCenter(e, e.cf1)
renderAudioPreviewMemoized(e) == R("png", <<"cache-get", "waveform", "cache-set">>)
renderAudioPreview(e)    == R("png", <<"waveform">>)

renderRasterPreviewDecodeThrows(e) ==
  IF e.fetch = "throw" THEN R("throw", <<"fetch">>)
  ELSE IF e.fetch = "notok" THEN R("null", <<"fetch">>)
  ELSE IF e.decode = "throw" THEN R("throw", <<"fetch", "decode">>)
  ELSE IF e.mime[2] = "gif" /\ e.decode = "noframes"
       THEN R("null", <<"fetch", "decode">>)
  ELSE R("png", <<"fetch", "decode", "upscale">>)
renderRasterPreview(e) ==
  IF e.fetch = "throw" THEN R("throw", <<"fetch">>)
  ELSE IF e.fetch = "notok" THEN R("null", <<"fetch">>)
  ELSE IF e.decode = "throw" THEN R("null", <<"fetch", "decode">>)
  ELSE IF e.mime[2] = "gif" /\ e.decode = "noframes"
       THEN R("null", <<"fetch", "decode">>)
  ELSE R("png", <<"fetch", "decode", "upscale">>)

renderSvgPreviewResvgFallback(e) ==
  IF e.fetch = "throw" THEN R("throw", <<"fetch">>)
  ELSE IF e.fetch = "notok" THEN R("null", <<"fetch">>)
  ELSE LET c == renderSvgWithChrome(e) IN
       IF e.foreignObject /\ c.res # "null" THEN R(c.res, <<"fetch">> \o c.trace)
       ELSE IF e.raster = "throw" THEN R("throw", <<"fetch", "resvg">>)
       ELSE R("png", <<"fetch", "resvg">>)
renderSvgPreview(e) ==
  IF e.fetch = "throw" THEN R("throw", <<"fetch">>)
  ELSE IF e.fetch = "notok" THEN R("null", <<"fetch">>)
  ELSE IF e.foreignObject
       THEN LET c == renderSvgWithChrome(e) IN R(c.res, <<"fetch">> \o c.trace)
  ELSE IF e.raster = "throw" THEN R("throw", <<"fetch", "resvg">>)
  ELSE R("png", <<"fetch", "resvg">>)

renderHtmlPreviewAnySize(e) ==
  IF ~e.configured THEN R("null", <<>>)
  ELSE IF e.fetch # "ok" THEN R("null", <<"fetch">>)
  ELSE
    LET first  == e.cf1
        retry  == first = "small" /\ ~e.recursive
        last   == IF retry THEN e.cf2 ELSE first
        calls  == IF retry THEN <<"fetch", "cf", "cf">> ELSE <<"fetch", "cf">>
    IN IF last # "null"
       THEN R(IF e.center = "ok" THEN "png" ELSE "null", calls \o <<"center">>)
       ELSE R("null", calls)

renderHtmlPreview(e) ==
  IF ~e.configured THEN R("null", <<>>)
  ELSE IF e.fetch # "ok" THEN R("null", <<"fetch">>)
  ELSE
    LET first  == e.cf1
        retry  == first = "small" /\ ~e.recursive
        last   == IF retry THEN e.cf2 ELSE first
        calls  == IF retry THEN <<"fetch", "cf", "cf">> ELSE <<"fetch", "cf">>
    IN IF last = "big"
       THEN R(IF e.center = "ok" THEN "png" ELSE "null", calls \o <<"center">>)
       ELSE R("null", calls)

renderPreviewChromeByDefault(e) ==
  IF e.lookup = "throw" THEN R("throw", <<"lookup">>)
  ELSE IF e.lookup = "nourl" THEN R("null", <<"lookup">>)
  ELSE
    LET r ==
      IF e.mime[1] = "image" /\ e.mime # <<"image", "svg+xml">>
      THEN LET a == renderRasterPreview(e) IN
           IF a.res # "null" THEN a
           ELSE LET b == renderImageWithChrome(e) IN R(b.res, a.trace \o b.trace)
      ELSE IF e.mime = <<"image", "svg+xml">> THEN renderSvgPreview(e)
      ELSE IF e.mime = <<"text", "html">> THEN renderHtmlPreview(e)
      ELSE IF e.mime[1] = "audio" THEN renderAudioPreview(e)
      ELSE renderVideoPreview(e)
    IN R(r.res, <<"lookup">> \o r.trace)

renderPreview(e) ==
  IF e.lookup = "throw" THEN R("throw", <<"lookup">>)
  ELSE IF e.lookup = "nourl" THEN R("null", <<"lookup">>)
  ELSE
    LET r ==
      IF e.mime[1] = "image" /\ e.mime # <<"image", "svg+xml">>
      THEN LET a == renderRasterPreview(e) IN
           IF a.res # "null" THEN a
           ELSE LET b == renderImageWithChrome(e) IN R(b.res, a.trace \o b.trace)
      ELSE IF e.mime = <<"image", "svg+xml">> THEN renderSvgPreview(e)
      ELSE IF e.mime = <<"text", "html">> THEN renderHtmlPreview(e)
      ELSE IF e.mime[1] = "audio" THEN renderAudioPreview(e)
      ELSE IF e.mime[1] = "video" THEN renderVideoPreview(e)
      ELSE R("null", <<>>)
    IN R(r.res, <<"lookup">> \o r.trace)

\* what a caller of renderPreview can observe: a preview, null, or an exception
RenderOutcomes == { renderPreview(e).res : e \in Envs }


(* ------------------------- stored values, responses -------------------- *)
\* a CacheEntry; "by" records the request whose write produced it
Absent         == [kind |-> "absent", timestamp |-> 0, by |-> 0]
CachedPreview(r) == [kind |-> "png", timestamp |-> 0, by |-> r]
FailedRenderSentinel(t, r) == [kind |-> "failed", timestamp |-> t, by |-> r]

isFailedSentinel(value) == value.kind = "failed"

\* the sentinel is trusted while it is younger than the failure window
SentinelFreshInSeconds(age) == age < FAILED_RENDER_TTL
SentinelFresh(age) == age < FAILED_RENDER_TTL * 1000

NoResp == [status |-> 0, ctype |-> "", location |-> "", xfallback |-> "", xcache |-> "", cc |-> ""]

Redirect(loc, xfallback, xcache, cc) ==
  [status |-> 302, ctype |-> "", location |-> loc, xfallback |-> xfallback,
   xcache |-> xcache, cc |-> cc]

BinaryResponse(xcache) ==
  [status |-> 200, ctype |-> "image/png", location |-> "", xfallback |-> "",
   xcache |-> xcache, cc |-> CACHE_HEADERS.success]

FallbackImmutable(reason) == Redirect(FALLBACK_LOGO, reason, "", CACHE_HEADERS.success)
Fallback(reason) == Redirect(FALLBACK_LOGO, reason, "", CACHE_HEADERS.redirect)

\* resolved by the handler timer
TimeoutResponseCacheable == Redirect(FALLBACK_LOGO, "handler-timeout", "", CACHE_HEADERS.redirect)
TimeoutResponse == Redirect(FALLBACK_LOGO, "handler-timeout", "", CACHE_HEADERS.error)

\* returned by the catch block of GET
GeneralErrorStatus500 ==
  [status |-> 500, ctype |-> "", location |-> "", xfallback |-> "", xcache |-> "",
   cc |-> CACHE_HEADERS.error]
GeneralErrorResponse == Redirect(FALLBACK_LOGO, "general-error", "", CACHE_HEADERS.error)

(* ------------------------------- state --------------------------------- *)
VARIABLES
  useS3Storage,  \* serverConfig.PREVIEW_STORAGE === "s3", fixed at module load
  now,           \* Date.now(), milliseconds
  ticks,         \* clock advances so far
  store,         \* Redis entry under preview:<stamp>
  s3,            \* S3 object previews/<stamp>.png
  pc,            \* position of each request's preview task
  refresh,       \* forceRefresh of each request
  pending,       \* value produced by a handleCache callback, not yet stored
  result,        \* outcome of the request's last renderPreview call
  wasRendered,   \* local flag set by the handleCache callback
  resp,          \* response returned by GET (NoResp while it awaits the race)
  taskResp,      \* response the preview task resolved with
  renders,       \* number of renderPreview calls made by the request
  writes,        \* number of cache-store / object-store writes made by it
  fault,         \* what made the task reject: "none", "store" or "render"
  cfPc, cfConfigured, attempt, cfLog, cfSleeps, cfResult,
  eqStore, eqS3, eqNow, eqLog,
  rpCalls,       \* calls of renderPreview made in isolation: argument and outcome
  htCalls,       \* runs of renderHtmlPreview on one document: its remote calls
  upCalls,       \* runs of the integer upscale on one decoded image
  auCalls,       \* calls of renderAudioPreview: input, time, process, outcome
  ldCalls,       \* calls of generateStampJsonLd: arguments and returned object
  ccCalls,      \* runs of centerOnCanvas on one decoded screenshot
  cfAttempt,    \* one attempt of renderWithCloudflare in time: phase, timer, elapsed ms
  nvCalls,      \* calls of NodeVersionRepository.getCurrentVersions, each with its query outcome and result
  wasmInitialized, \* the module-level flag of ensureWasmInitialized
  svgPc,         \* position of each vector render around ensureWasmInitialized
  initCalls,     \* initWasm calls in order: who, and whether one had resolved
  initResolved,  \* number of initWasm promises that have resolved
  engineUses     \* new Resvg(...) calls: who, and whether an initWasm had resolved

handlerVars == <<useS3Storage, now, ticks, store, s3, pc, refresh, pending,
                 result, wasRendered, resp, taskResp, renders, writes, fault>>
cfVars == <<cfPc, cfConfigured, attempt, cfLog, cfSleeps, cfResult>>
eqVars == <<eqStore, eqS3, eqNow, eqLog>>
fnVars == <<rpCalls, htCalls, upCalls, auCalls, ldCalls, ccCalls, cfAttempt, nvCalls>>
wasmVars == <<wasmInitialized, svgPc, initCalls, initResolved, engineUses>>
vars == <<handlerVars, cfVars, eqVars, fnVars, wasmVars>>

\* the S3 object; "by" records the request that uploaded it
NoObject == [present |-> FALSE, by |-> 0]
Uploaded(r) == [present |-> TRUE, by |-> r]

\* The stores outlive the process: at module load the active one may hold
\* nothing, a preview, or (Redis) a sentinel, left by earlier requests
\* (writer 0).
HandlerInit ==
  /\ useS3Storage \in BOOLEAN
  /\ now = 0
  /\ ticks = 0
  /\ store \in IF useS3Storage THEN {Absent}
               ELSE {Absent, CachedPreview(0), FailedRenderSentinel(0, 0)}
  /\ s3 \in IF useS3Storage THEN {NoObject, Uploaded(0)} ELSE {NoObject}
  /\ pc = [r \in Reqs |-> "idle"]
  /\ refresh = [r \in Reqs |-> FALSE]
  /\ pending = [r \in Reqs |-> Absent]
  /\ result = [r \in Reqs |-> "none"]
  /\ wasRendered = [r \in Reqs |-> FALSE]
  /\ resp = [r \in Reqs |-> NoResp]
  /\ taskResp = [r \in Reqs |-> NoResp]
  /\ renders = [r \in Reqs |-> 0]
  /\ writes = [r \in Reqs |-> 0]
  /\ fault = [r \in Reqs |-> "none"]

CfStart ==
  /\ cfPc = "idle"
  /\ attempt = 0
  /\ cfLog = <<>>
  /\ cfSleeps = <<>>
  /\ cfResult = "none"

CfIdle == CfStart /\ cfConfigured = TRUE

EqIdle ==
  /\ eqStore = Absent
  /\ eqS3 = NoObject
  /\ eqNow = 0
  /\ eqLog = <<>>

FnIdle ==
  /\ rpCalls = <<>>
  /\ htCalls = <<>>
  /\ upCalls = <<>>
  /\ auCalls = <<>>
  /\ ldCalls = <<>>
  /\ ccCalls = <<>>
  /\ cfAttempt = <<>>
  /\ nvCalls = <<>>
  /\ wasmInitialized = FALSE
  /\ svgPc = [r \in Reqs |-> "idle"]
  /\ initCalls = <<>>
  /\ initResolved = 0
  /\ engineUses = <<>>

Init == HandlerInit /\ CfIdle /\ EqIdle /\ FnIdle

(* -------------------- GET: the race of task and timer ------------------ *)
Running(r) == pc[r] \notin {"idle", "done", "rejected", "closed"}
Finished(r) == pc[r] \in {"done", "rejected"}

\* A request that has ended is closed (Close) before any other step is
\* taken: its locals are dead from then on.
NoneFinished == \A q \in Reqs : ~Finished(q)

\* the preview task resolves with response rp; GET returns it unless the
\* timer has already answered
Resolve(r, rp) ==
  /\ pc' = [pc EXCEPT ![r] = "done"]
  /\ taskResp' = [taskResp EXCEPT ![r] = rp]
  /\ resp' = [resp EXCEPT ![r] = IF resp[r] = NoResp THEN rp ELSE resp[r]]
  /\ fault' = fault

\* the preview task rejects; the catch block of GET answers unless the timer
\* already has
Reject(r, why) ==
  /\ pc' = [pc EXCEPT ![r] = "rejected"]
  /\ taskResp' = taskResp
  /\ fault' = [fault EXCEPT ![r] = why]
  /\ resp' = [resp EXCEPT ![r] = IF resp[r] = NoResp THEN GeneralErrorResponse ELSE resp[r]]

StepTo(r, p) ==
  /\ pc' = [pc EXCEPT ![r] = p]
  /\ UNCHANGED <<resp, taskResp, fault>>

fixed == <<useS3Storage, now, ticks, refresh, cfVars, eqVars, fnVars, wasmVars>>

\* GET is entered: forceRefresh is read and the preview task starts
Start(r) ==
  /\ NoneFinished
  /\ pc[r] = "idle"
  /\ r > 1 => pc[r - 1] # "idle"
  /\ \E f \in BOOLEAN :
       /\ refresh' = [refresh EXCEPT ![r] = f]
       /\ pc' = [pc EXCEPT ![r] =
                   IF useS3Storage
                   THEN (IF f THEN "s_render" ELSE "s_exists")
                   ELSE (IF f THEN "r_invalidate" ELSE "r_get")]
  /\ UNCHANGED <<useS3Storage, now, ticks, store, s3, pending, result,
                 wasRendered, resp, taskResp, renders, writes, fault, cfVars, eqVars, fnVars, wasmVars>>

\* the setTimeout callback runs while GET still awaits the race: the timer
\* answers, the preview task is left running
Timeout(r) ==
  /\ NoneFinished
  /\ Running(r)
  /\ resp[r] = NoResp
  /\ resp' = [resp EXCEPT ![r] = TimeoutResponse]
  /\ UNCHANGED <<fixed, store, s3, pc, pending, result, wasRendered, taskResp,
                 renders, writes, fault>>

\* the request and its task are over; nothing of them is read again
Close(r) ==
  /\ Finished(r)
  /\ pc' = [pc EXCEPT ![r] = "closed"]
  /\ refresh' = [refresh EXCEPT ![r] = FALSE]
  /\ pending' = [pending EXCEPT ![r] = Absent]
  /\ result' = [result EXCEPT ![r] = "none"]
  /\ wasRendered' = [wasRendered EXCEPT ![r] = FALSE]
  /\ resp' = [resp EXCEPT ![r] = NoResp]
  /\ taskResp' = [taskResp EXCEPT ![r] = NoResp]
  /\ renders' = [renders EXCEPT ![r] = 0]
  /\ writes' = [writes EXCEPT ![r] = 0]
  /\ fault' = [fault EXCEPT ![r] = "none"]
  /\ UNCHANGED <<useS3Storage, now, ticks, store, s3, cfVars, eqVars, fnVars, wasmVars>>

Tick ==
  /\ NoneFinished
  /\ ticks < MaxTicks
  /\ ticks' = ticks + 1
  /\ \E d \in TimeSteps : now' = now + d
  /\ UNCHANGED <<useS3Storage, store, s3, pc, refresh, pending, result,
                 wasRendered, resp, taskResp, renders, writes, fault, cfVars, eqVars, fnVars, wasmVars>>

(* ------------------- collaborators outside this file ------------------- *)
\* dbManager.handleCache(key, fetch, ttl): a stored value is returned as is;
\* on a miss the callback runs and its value is stored, then returned
handleCacheHit(entry) == entry.kind # "absent"
\* dbManager.invalidateCacheByPattern(key)
invalidateCacheByPattern == Absent
\* previewExists(stamp)
previewExistsAssumed(obj) == TRUE
previewExists(obj) == obj.present
\* the write that ends a handleCache miss: the callback's value replaces
\* whatever the key holds by then
handleCacheStoreUnlessAnswered(entry, value) ==
  IF resp[value.by] # NoResp THEN entry ELSE value
handleCacheStoreIfAbsent(entry, value) == IF entry.kind = "absent" THEN value ELSE entry
handleCacheStore(entry, value) == value

(* --------------------------- handleRedisPreview ------------------------ *)
\* what follows the first handleCache call, given the value c it returned
AfterCache(r, c, rendered) ==
  IF isFailedSentinel(c)
  THEN IF SentinelFresh(now - c.timestamp)
       THEN Resolve(r, Fallback("cached-render-failure"))
       ELSE StepTo(r, "x_invalidate")
  ELSE IF c.kind = "png"
       THEN Resolve(r, BinaryResponse(IF rendered THEN "rendered" ELSE "redis-hit"))
       ELSE Resolve(r, Fallback("render-failed-or-unsupported"))

RedisForceInvalidate(r) ==
  /\ NoneFinished
  /\ pc[r] = "r_invalidate"
  /\ store' = invalidateCacheByPattern
  /\ StepTo(r, "r_get")
  /\ UNCHANGED <<fixed, s3, pending, result, wasRendered, renders, writes>>

\* handleCache reads the key: a hit returns, a miss enters the callback
RedisCacheGet(r) ==
  /\ NoneFinished
  /\ pc[r] = "r_get"
  /\ IF handleCacheHit(store)
     THEN AfterCache(r, store, wasRendered[r]) /\ UNCHANGED wasRendered
     ELSE /\ wasRendered' = [wasRendered EXCEPT ![r] = TRUE]
          /\ StepTo(r, "r_render")
  /\ UNCHANGED <<fixed, store, s3, pending, result, renders, writes>>

\* The callback: renderPreview, or a sentinel stamped with Date.now(); then
\* handleCache stores the callback's value and returns it.  The return of
\* the callback is taken together with the store command issued right after
\* it: no other code of the process runs in between, and the clock is read
\* at the same instant for the sentinel's timestamp and for its age.
RedisRender(r) ==
  /\ NoneFinished
  /\ pc[r] = "r_render"
  /\ renders' = [renders EXCEPT ![r] = @ + 1]
  /\ \E o \in RenderOutcomes :
       /\ result' = [result EXCEPT ![r] = o]
       /\ IF o = "throw"
          THEN Reject(r, "render") /\ UNCHANGED <<store, writes>>
          ELSE LET data == IF o = "png" THEN CachedPreview(r)
                           ELSE FailedRenderSentinel(now, r)
               IN /\ store' = handleCacheStore(store, data)
                  /\ writes' = [writes EXCEPT ![r] = @ + 1]
                  /\ AfterCache(r, data, wasRendered[r])
  /\ UNCHANGED <<fixed, s3, pending, wasRendered>>

\* expired sentinel: invalidate, then re-render
RetryInvalidate(r) ==
  /\ NoneFinished
  /\ pc[r] = "x_invalidate"
  /\ store' = invalidateCacheByPattern
  /\ StepTo(r, "x_render")
  /\ UNCHANGED <<fixed, s3, pending, result, wasRendered, renders, writes>>

RetryResponseAsHit(res) ==
  IF res = "png" THEN BinaryResponse("redis-hit")
  ELSE Fallback("render-failed-retry")
RetryResponse(res) ==
  IF res = "png" THEN BinaryResponse("retry-after-failure")
  ELSE Fallback("render-failed-retry")

\* renderPreview returns and the second handleCache call reads the key: a
\* value written meanwhile by another request is a hit and nothing is stored;
\* on a miss its callback yields the fresh result, or a new sentinel
RetryRender(r) ==
  /\ NoneFinished
  /\ pc[r] = "x_render"
  /\ renders' = [renders EXCEPT ![r] = @ + 1]
  /\ \E o \in RenderOutcomes :
       /\ result' = [result EXCEPT ![r] = o]
       /\ IF o = "throw" THEN Reject(r, "render") /\ UNCHANGED pending
          ELSE IF handleCacheHit(store)
               THEN Resolve(r, RetryResponse(o)) /\ UNCHANGED pending
               ELSE /\ pending' = [pending EXCEPT ![r] =
                                     IF o = "png" THEN CachedPreview(r)
                                     ELSE FailedRenderSentinel(now, r)]
                    /\ StepTo(r, "x_set")
  /\ UNCHANGED <<fixed, store, s3, wasRendered, writes>>

RetryCacheSet(r) ==
  /\ NoneFinished
  /\ pc[r] = "x_set"
  /\ store' = handleCacheStore(store, pending[r])
  /\ writes' = [writes EXCEPT ![r] = @ + 1]
  /\ pending' = [pending EXCEPT ![r] = Absent]
  /\ Resolve(r, RetryResponse(result[r]))
  /\ UNCHANGED <<fixed, s3, result, wasRendered, renders>>

(* ----------------------------- handleS3Preview ------------------------- *)
S3Exists(r) ==
  /\ NoneFinished
  /\ pc[r] = "s_exists"
  /\ IF previewExists(s3)
     THEN Resolve(r, Redirect(PreviewUrl, "", "s3-hit", CACHE_HEADERS.redirect))
     ELSE StepTo(r, "s_render")
  /\ UNCHANGED <<fixed, store, s3, pending, result, wasRendered, renders, writes>>

S3Render(r) ==
  /\ NoneFinished
  /\ pc[r] = "s_render"
  /\ renders' = [renders EXCEPT ![r] = @ + 1]
  /\ \E o \in RenderOutcomes :
       /\ result' = [result EXCEPT ![r] = o]
       /\ IF o = "throw" THEN Reject(r, "render")
          ELSE IF o = "null" THEN Resolve(r, Fallback("render-failed-or-unsupported"))
          ELSE StepTo(r, "s_upload")
  /\ UNCHANGED <<fixed, store, s3, pending, wasRendered, writes>>

S3Upload(r) ==
  /\ NoneFinished
  /\ pc[r] = "s_upload"
  /\ s3' = Uploaded(r)
  /\ writes' = [writes EXCEPT ![r] = @ + 1]
  /\ Resolve(r, Redirect(PreviewUrl, "", "s3-uploaded", CACHE_HEADERS.redirect))
  /\ UNCHANGED <<fixed, store, pending, result, wasRendered, renders>>

\* a cache-store or object-store call of the task throws
StoreOps == {"r_invalidate", "r_get", "r_render", "x_invalidate", "x_render",
             "x_set", "s_exists", "s_upload"}

StoreThrows(r) ==
  /\ NoneFinished
  /\ pc[r] \in StoreOps
  /\ Reject(r, "store")
  /\ UNCHANGED <<fixed, store, s3, pending, result, wasRendered, renders, writes>>

Next ==
  \/ \E r \in Reqs : Start(r)
  \/ \E r \in Reqs : Timeout(r)
  \/ \E r \in Reqs : Close(r)
  \/ Tick
  \/ \E r \in Reqs : RedisForceInvalidate(r)
  \/ \E r \in Reqs : RedisCacheGet(r)
  \/ \E r \in Reqs : RedisRender(r)
  \/ \E r \in Reqs : RetryInvalidate(r)
  \/ \E r \in Reqs : RetryRender(r)
  \/ \E r \in Reqs : RetryCacheSet(r)
  \/ \E r \in Reqs : S3Exists(r)
  \/ \E r \in Reqs : S3Render(r)
  \/ \E r \in Reqs : S3Upload(r)
  \/ \E r \in Reqs : StoreThrows(r)

Spec == Init /\ [][Next]_vars

\* the same process serving an identifier that no store holds yet
UncachedInit == Init /\ store = Absent /\ s3 = NoObject

SpecUncached == UncachedInit /\ [][Next]_vars


(* ------------------------- renderWithCloudflare ------------------------ *)
\* substrings of an error message that the catch block looks for
MsgMarks == {"abort", "Abort", "network", "Network", "ECONNREFUSED", "ETIMEDOUT"}
\* an error message, as the set of those substrings it contains
Msgs == {{}} \cup {{m} : m \in MsgMarks} \cup {{"abort", "network"}}

\* what one attempt ends with: an HTTP response, or an exception thrown by
\* fetch or by reading the body
Statuses == {200, 400, 404, 499, 500, 503}
AttemptOutcomes ==
  [kind : {"response"}, status : Statuses, name : {""}, msg : {{}}]
    \cup [kind : {"error"}, status : {0},
          name : {"AbortError", "TimeoutError", "TypeError"}, msg : Msgs]

ResponseOk(o) == o.kind = "response" /\ o.status >= 200 /\ o.status <= 299

\* msg.toLowerCase().includes("abort") || name is AbortError / TimeoutError
isAbort(o) ==
  \/ "abort" \in o.msg
  \/ "Abort" \in o.msg
  \/ o.name = "AbortError"
  \/ o.name = "TimeoutError"

isRetryableIgnoringAbort(o) ==
  "network" \in o.msg \/ "ECONNREFUSED" \in o.msg \/ "ETIMEDOUT" \in o.msg
isRetryable(o) ==
  ~isAbort(o) /\ ("network" \in o.msg \/ "ECONNREFUSED" \in o.msg \/ "ETIMEDOUT" \in o.msg)

\* the attempt is followed by a backoff sleep and another attempt
RetryAfterOneMore(o, a) ==
  IF o.kind = "response" THEN o.status >= 500 /\ a < maxRetries + 1
  ELSE isRetryable(o) /\ a < maxRetries + 1
RetryAfterOnly503(o, a) ==
  IF o.kind = "response" THEN o.status > 500 /\ a < maxRetries
  ELSE isRetryable(o) /\ a < maxRetries
RetryAfter(o, a) ==
  IF o.kind = "response" THEN o.status >= 500 /\ a < maxRetries
  ELSE isRetryable(o) /\ a < maxRetries

\* entry: without worker configuration the call returns null at once
CFCall ==
  /\ cfPc = "idle"
  /\ IF cfConfigured
     THEN cfPc' = "attempt" /\ cfResult' = cfResult
     ELSE cfPc' = "done" /\ cfResult' = "null"
  /\ UNCHANGED <<cfConfigured, attempt, cfLog, cfSleeps, handlerVars, eqVars, fnVars, wasmVars>>

\* one pass of the for loop up to its return or its sleep
CFAttempt ==
  /\ cfPc = "attempt"
  /\ \E o \in AttemptOutcomes :
       /\ cfLog' = Append(cfLog, o)
       /\ IF ResponseOk(o)
          THEN cfPc' = "done" /\ cfResult' = "bytes"
          ELSE IF RetryAfter(o, attempt)
               THEN cfPc' = "sleep" /\ cfResult' = cfResult
               ELSE cfPc' = "done" /\ cfResult' = "null"
  /\ UNCHANGED <<cfConfigured, attempt, cfSleeps, handlerVars, eqVars, fnVars, wasmVars>>

\* setTimeout(r, retryDelays[attempt]); continue
CFSleep ==
  /\ cfPc = "sleep"
  /\ cfSleeps' = Append(cfSleeps, retryDelays[attempt + 1])
  /\ attempt' = attempt + 1
  /\ cfPc' = "attempt"
  /\ UNCHANGED <<cfConfigured, cfLog, cfResult, handlerVars, eqVars, fnVars, wasmVars>>

CfNext == CFCall \/ CFAttempt \/ CFSleep

HandlerIdle == HandlerInit /\ ~useS3Storage

CfInit == HandlerIdle /\ CfStart /\ cfConfigured \in BOOLEAN /\ EqIdle /\ FnIdle

SpecCF == CfInit /\ [][CfNext]_vars

(* ---------- the two backends on one sequence of requests --------------- *)
\* handleRedisPreview run alone on entry st at time t, with render outcome o
RedisSeq(st, t, f, o) ==
  LET st1  == IF f THEN invalidateCacheByPattern ELSE st
      made == IF o = "png" THEN CachedPreview(0) ELSE FailedRenderSentinel(t, 0)
  IN IF ~handleCacheHit(st1)
     THEN [store |-> IF o = "throw" THEN st1 ELSE made, rendered |-> TRUE]
     ELSE IF isFailedSentinel(st1) /\ ~SentinelFresh(t - st1.timestamp)
          THEN [store |-> IF o = "throw" THEN invalidateCacheByPattern ELSE made,
                rendered |-> TRUE]
          ELSE [store |-> st1, rendered |-> FALSE]

\* handleS3Preview run alone on object obj, with render outcome o
S3Seq(obj, f, o) ==
  IF ~f /\ previewExists(obj)
  THEN [s3 |-> obj, rendered |-> FALSE]
  ELSE [s3 |-> IF o = "png" THEN Uploaded(0) ELSE obj, rendered |-> TRUE]

EquivRequest ==
  /\ Len(eqLog) < MaxSeq
  /\ \E f \in BOOLEAN, o \in RenderOutcomes, d \in {0} \cup TimeSteps :
       LET t == eqNow + d
           a == RedisSeq(eqStore, t, f, o)
           b == S3Seq(eqS3, f, o)
       IN /\ eqNow' = t
          /\ eqStore' = a.store
          /\ eqS3' = b.s3
          /\ eqLog' = Append(eqLog, [refresh |-> f, outcome |-> o,
                                     redis |-> a.rendered, s3 |-> b.rendered])
  /\ UNCHANGED <<handlerVars, cfVars, fnVars, wasmVars>>

EquivNext == EquivRequest

EquivInit == HandlerIdle /\ CfIdle /\ EqIdle /\ FnIdle

SpecEquiv == EquivInit /\ [][EquivNext]_vars


(* ------------------- renderPreview, called in isolation ---------------- *)
\* one call of renderPreview under some outcome of its collaborators
RenderPreviewCall ==
  /\ rpCalls = <<>>
  /\ \E e \in Envs : rpCalls' = <<[env |-> e, out |-> renderPreview(e)]>>
  /\ UNCHANGED <<handlerVars, cfVars, eqVars, htCalls, upCalls, auCalls, ldCalls, ccCalls, cfAttempt, nvCalls, wasmVars>>

RenderNext == RenderPreviewCall

RenderInit == HandlerIdle /\ store = Absent /\ CfIdle /\ EqIdle /\ FnIdle

SpecRender == RenderInit /\ [][RenderNext]_vars

(* --------------- renderRasterPreview: the integer upscale -------------- *)
targetSize == 1200

Max(a, b) == IF a >= b THEN a ELSE b
Min(a, b) == IF a <= b THEN a ELSE b

\* Math.max(2, Math.floor(targetSize / maxDimension))
rawScale(w, h) == Max(2, targetSize \div Max(w, h))

scaleUnclamped(w, h) == rawScale(w, h)
scale(w, h) ==
  Min(rawScale(w, h), Min(targetSize \div w, targetSize \div h))

\* canvas coordinates (1-based) that the pixel loop computes along one axis
\* for a source side of n pixels, and those it writes (the others are skipped)
Computed(n, k, off) == { off + x * k + d + 1 : x \in 0..(n - 1), d \in 0..(k - 1) }
Written(n, k, off) == { p \in Computed(n, k, off) : p >= 1 /\ p <= targetSize }

Upscale(w, h) ==
  LET k  == scale(w, h)
      ox == (targetSize - w * k) \div 2
      oy == (targetSize - h * k) \div 2
  IN [width |-> w, height |-> h, scale |-> k,
      scaledWidth |-> w * k, scaledHeight |-> h * k,
      offsetX |-> ox, offsetY |-> oy,
      computedX |-> Computed(w, k, ox), computedY |-> Computed(h, k, oy),
      writtenX |-> Written(w, k, ox), writtenY |-> Written(h, k, oy)]

\* sides around the places where the scale changes, and beyond the canvas
EdgeSides == {64, 399, 400, 401, 599, 600, 601, 1199, 1200, 1201, 2400}
Sides == 1..MaxSmallSide \cup EdgeSides

\* the upscale of one decoded image
UpscaleCall ==
  /\ upCalls = <<>>
  /\ \E w \in Sides, h \in Sides : upCalls' = <<Upscale(w, h)>>
  /\ UNCHANGED <<handlerVars, cfVars, eqVars, rpCalls, htCalls, auCalls, ldCalls, ccCalls, cfAttempt, nvCalls, wasmVars>>

UpscaleNext == UpscaleCall

SpecUpscale == RenderInit /\ [][UpscaleNext]_vars

(* ------------- renderHtmlPreview: classification and calls ------------- *)
\* A fetched document and its stamp_url, by what the string tests of
\* renderHtmlPreview can see of them.
HtmlDocs ==
  [ iframe      : {"none", "rooted", "absolute", "nosrc"},
                  \* "<iframe" present, with src="/...", src="https://...", or no quoted src
    srcBefore   : BOOLEAN,   \* another tag with a quoted src="a.png" comes first
    externalRef : BOOLEAN,   \* ordinals.com/, arweave.net/ or github.io/
    stampRef    : BOOLEAN,   \* a quoted "/s/..." or "A0123456789" outside any src
    canvas      : BOOLEAN,   \* "<canvas" or "getContext"
    animation   : BOOLEAN,   \* requestAnimationFrame, @keyframes or setInterval
    asyncLoad   : BOOLEAN,   \* "async", "await" or ".then("
    long        : BOOLEAN,   \* rawHtml.length >= 500
    urlWord     : BOOLEAN ]  \* stamp_url includes "recursive" or "fractal"

CfBytes == {"big", "small", "null"}

hasIframe(d) == d.iframe # "none"
\* the iframe is the only tag of these documents whose src can start with "/"
hasRelativeScriptSrc(d) == d.iframe = "rooted"
hasStampContentRef(d) == d.stampRef
isRecursive(d) ==
  hasIframe(d) \/ d.externalRef \/ hasRelativeScriptSrc(d) \/ hasStampContentRef(d)
isSimpleIframe(d) ==
  hasIframe(d) /\ ~d.canvas /\ ~d.animation /\ ~d.asyncLoad /\ ~d.long
isComplex(d) == (isRecursive(d) /\ ~isSimpleIframe(d)) \/ d.urlWord \/ d.canvas
delay(d) == IF isComplex(d) THEN 8000 ELSE 3000

\* the first quoted src attribute of the document, as the regex finds it
renderUrl(d) ==
  IF ~isSimpleIframe(d) THEN "contentUrl"
  ELSE IF d.srcBefore THEN "otherSrc"
  ELSE IF d.iframe = "rooted" THEN "origin+iframeSrc"
  ELSE IF d.iframe = "absolute" THEN "iframeSrc"
  ELSE "contentUrl"

\* parameters of a renderWithCloudflare call; timeout is params.timeout ?? 30000
CfParams(mode, target, dl, tmo) ==
  [mode |-> mode, target |-> target, delay |-> dl, timeout |-> tmo]

firstCall(d) ==
  IF isRecursive(d) THEN CfParams("url", renderUrl(d), delay(d), 45000)
  ELSE CfParams("html", "cleanedHtml", delay(d), 30000)

\* the small-output retry
retryUrlModeAnyContent(d, first) == first = "small"
retryUrlMode(d, first) == first = "small" /\ ~isRecursive(d)

\* renderHtmlPreview on a fetched document with the worker configured: the
\* calls it makes and its result
HtmlRun(d, first, second, center) ==
  LET again == retryUrlMode(d, first)
      last  == IF again THEN second ELSE first
  IN [doc |-> d, first |-> first, second |-> second,
      calls |-> IF again
                THEN <<firstCall(d), CfParams("url", "contentUrl", 8000, 45000)>>
                ELSE <<firstCall(d)>>,
      res |-> IF last = "big" /\ center = "ok" THEN "png" ELSE "null"]

HtmlPreviewCall ==
  /\ htCalls = <<>>
  /\ \E d \in HtmlDocs, first \in CfBytes, second \in CfBytes, center \in {"ok", "throw"} :
       htCalls' = <<HtmlRun(d, first, second, center)>>
  /\ UNCHANGED <<handlerVars, cfVars, eqVars, rpCalls, upCalls, auCalls, ldCalls, ccCalls, cfAttempt, nvCalls, wasmVars>>

HtmlNext == HtmlPreviewCall

SpecHtml == RenderInit /\ [][HtmlNext]_vars

(* ---------------- renderAudioPreview: the waveform bars ---------------- *)
MaxUrlLen == 1
RngBits == 15
barCount == 64

\* stamp_url as its char codes
UrlChars == {97, 98}
Urls == UNION { [1..n -> UrlChars] : n \in 0..MaxUrlLen }

\* what a call could read besides its arguments: Date.now() and the isolate
Clock == 0..MaxTicks
Isolates == {"isolate-1", "isolate-2"}

\* seed = ((seed << 5) - seed + stamp_url.charCodeAt(i)) | 0, from seed = 0.
\* For the urls enumerated here the sum stays below 2^31, where | 0 changes
\* nothing.
RECURSIVE hashSeed(_, _)
hashSeed(stamp_url, acc) ==
  IF stamp_url = <<>> THEN acc
  ELSE hashSeed(Tail(stamp_url), (acc * 32 - acc) + Head(stamp_url))

\* the value of the local variable seed before the first draw
seedFromClock(stamp_url, clock) == hashSeed(stamp_url, 0) + clock
seed(stamp_url, clock) == hashSeed(stamp_url, 0)

\* seed = (seed * 1103515245 + 12345) & 0x7fffffff, kept on RngBits bits: the
\* code's product leaves the exact range of its number type, and the bars
\* depend on the generator only through the chain of its states
RngMask == 2 ^ RngBits
rngState(s) == (s * (1103515245 % RngMask) + 12345) % RngMask
rng(s, n) == rngState(s) % n

colors == <<"f59e0bff", "f97316ff", "ef4444ff", "ec4899ff">>

\* the loop over the bars: bar i draws rng(700) for its height (barHeight is
\* a function of i and of that draw), then rng(colors.length) for its colour
RECURSIVE bars(_, _)
bars(s, i) ==
  IF i = barCount THEN <<>>
  ELSE LET s1 == rngState(s)
           s2 == rngState(s1)
       IN <<[i |-> i, variation |-> s1 % 700, color |-> colors[(s2 % Len(colors)) + 1]]>>
          \o bars(s2, i + 1)

\* the image: background, bars, then the play circle and triangle, which are
\* the same pixels in every call
waveform(stamp_url, clock) ==
  [bgColor |-> "14001fff", bars |-> bars(seed(stamp_url, clock), 0),
   play |-> "circle60+triangle30"]

AudioCall ==
  /\ Len(auCalls) < NumReqs
  /\ \E u \in Urls, t \in Clock, p \in Isolates :
       auCalls' = Append(auCalls, [stamp_url |-> u, at |-> t, isolate |-> p,
                                   image |-> waveform(u, t)])
  /\ UNCHANGED <<handlerVars, cfVars, eqVars, rpCalls, htCalls, upCalls, ldCalls, ccCalls, cfAttempt, nvCalls, wasmVars>>

AudioNext == AudioCall

SpecAudio == RenderInit /\ [][AudioNext]_vars


(* ------------- ensureWasmInitialized under concurrent renders ---------- *)
\* renderSvgPreview calls ensureWasmInitialized: the flag is tested and, when
\* it is false, initWasm is called in the same synchronous run; the render
\* then waits for the promise. With the flag set the function returns at once.
EnsureWasmInitialized(r) ==
  /\ svgPc[r] = "idle"
  /\ IF wasmInitialized
     THEN /\ svgPc' = [svgPc EXCEPT ![r] = "render"]
          /\ UNCHANGED initCalls
     ELSE /\ svgPc' = [svgPc EXCEPT ![r] = "initializing"]
          /\ initCalls' = Append(initCalls, [by |-> r, afterSuccess |-> initResolved > 0])
  /\ UNCHANGED <<wasmInitialized, initResolved, engineUses, handlerVars, cfVars, eqVars, fnVars>>

\* the promise of initWasm resolves; the continuation of the await is queued
InitWasmResolves(r) ==
  /\ svgPc[r] = "initializing"
  /\ svgPc' = [svgPc EXCEPT ![r] = "resumed"]
  /\ initResolved' = initResolved + 1
  /\ UNCHANGED <<wasmInitialized, initCalls, engineUses, handlerVars, cfVars, eqVars, fnVars>>

\* the promise of initWasm rejects (the fetch of the module fails, or the
\* library refuses the call): the exception leaves renderSvgPreview
InitWasmRejects(r) ==
  /\ svgPc[r] = "initializing"
  /\ svgPc' = [svgPc EXCEPT ![r] = "failed"]
  /\ UNCHANGED <<wasmInitialized, initCalls, initResolved, engineUses, handlerVars, cfVars, eqVars, fnVars>>

\* the continuation runs: wasmInitialized = true
SetWasmInitialized(r) ==
  /\ svgPc[r] = "resumed"
  /\ wasmInitialized' = TRUE
  /\ svgPc' = [svgPc EXCEPT ![r] = "render"]
  /\ UNCHANGED <<initCalls, initResolved, engineUses, handlerVars, cfVars, eqVars, fnVars>>

\* new Resvg(...).render().asPng(), one synchronous run
UseEngine(r) ==
  /\ svgPc[r] = "render"
  /\ engineUses' = Append(engineUses, [by |-> r, ready |-> initResolved > 0])
  /\ svgPc' = [svgPc EXCEPT ![r] = "done"]
  /\ UNCHANGED <<wasmInitialized, initCalls, initResolved, handlerVars, cfVars, eqVars, fnVars>>

WasmNext ==
  \/ \E r \in Reqs : EnsureWasmInitialized(r)
  \/ \E r \in Reqs : InitWasmResolves(r)
  \/ \E r \in Reqs : InitWasmRejects(r)
  \/ \E r \in Reqs : SetWasmInitialized(r)
  \/ \E r \in Reqs : UseEngine(r)

SpecWasm == RenderInit /\ [][WasmNext]_vars

(* ------------------------- generateStampJsonLd ------------------------- *)
SATS_PER_BTC == 100000000

\* JavaScript values that may be missing
Null == [tag |-> "null"]
Undefined == [tag |-> "undefined"]
Some(v) == [tag |-> "value", v |-> v]

\* the fields of the stamp row that the function reads
StampRows ==
  [ stamp : {1}, creator : {"bc1qcreator"},
    creator_name : {Null, Some(""), Some("Satoshi")},
    file_size_bytes : {Null, Some(0), Some(1024)},
    block_time : {[kind |-> "Date", ms |-> 1700000], [kind |-> "seconds", ms |-> 1700]},
    stamp_mimetype : {"image/png"}, tx_hash : {"abc"} ]

CollectionInfos ==
  {Undefined, Null,
   Some([collection_id |-> "c1", collection_name |-> "Posh", collection_description |-> ""])}
Dispensers == {Undefined, Null, Some([satoshirate |-> 0]), Some([satoshirate |-> 50000])}

\* truthiness of such a value: null, undefined and "" are falsy, objects are
\* truthy
Truthy(x) == x.tag = "value" /\ x.v # ""

\* stamp.creator_name || stamp.creator
creatorName(stamp) ==
  IF Truthy(stamp.creator_name) THEN stamp.creator_name.v ELSE stamp.creator

\* stamp.file_size_bytes != null
hasContentSizeWhenTruthy(stamp) ==
  stamp.file_size_bytes.tag = "value" /\ stamp.file_size_bytes.v # 0
hasContentSize(stamp) == stamp.file_size_bytes.tag \notin {"null", "undefined"}

\* the returned object, as a function of its keys
generateStampJsonLd(stamp, metaInfo, collectionInfo, lowestPriceDispenser) ==
  LET base ==
        [ context |-> "https://schema.org",
          type |-> <<"ImageObject", "CreativeWork">>,
          name |-> <<"Bitcoin Stamp #", stamp.stamp>>,
          contentUrl |-> metaInfo.url,
          thumbnailUrl |-> <<metaInfo.baseUrl, "/", stamp.stamp, ".png">>,
          creator |-> [type |-> "Person", name |-> creatorName(stamp)],
          datePublished |-> IF stamp.block_time.kind = "Date"
                            THEN stamp.block_time.ms
                            ELSE stamp.block_time.ms * 1000,
          encodingFormat |-> stamp.stamp_mimetype,
          identifier |-> [type |-> "PropertyValue", propertyID |-> "tx_hash",
                          value |-> stamp.tx_hash] ]
      size == IF hasContentSize(stamp)
              THEN [contentSize |-> <<stamp.file_size_bytes.v, " bytes">>]
              ELSE <<>>
      part == IF collectionInfo.tag = "value"
              THEN [isPartOf |-> [type |-> "Collection",
                                  name |-> collectionInfo.v.collection_name]]
              ELSE <<>>
      offer == IF lowestPriceDispenser.tag = "value"
               THEN [offers |-> [type |-> "Offer",
                                 price |-> <<lowestPriceDispenser.v.satoshirate, SATS_PER_BTC>>,
                                 priceCurrency |-> "BTC"]]
               ELSE <<>>
  IN base @@ size @@ part @@ offer

JsonLdCall ==
  /\ ldCalls = <<>>
  /\ \E st \in StampRows, c \in CollectionInfos, d \in Dispensers :
       ldCalls' = <<[stamp |-> st, collectionInfo |-> c, lowestPriceDispenser |-> d,
                     jsonLd |-> generateStampJsonLd(
                                  st, [url |-> "https://stampchain.io/s/1",
                                       baseUrl |-> "https://stampchain.io/s"], c, d)]>>
  /\ UNCHANGED <<handlerVars, cfVars, eqVars, rpCalls, htCalls, upCalls, auCalls, ccCalls, cfAttempt, nvCalls, wasmVars>>

JsonLdNext == JsonLdCall

SpecJsonLd == RenderInit /\ [][JsonLdNext]_vars

(* ------------------- centerOnCanvas: scale and offsets ------------------ *)
\* Math.round(n * scale) for scale = Math.min(targetSize / srcW, targetSize / srcH),
\* in exact arithmetic: Math.round rounds halves up, so the value is
\* floor((2 * n * targetSize + d) / (2 * d)) for d the larger source side
roundScaled(n, d) == (2 * n * targetSize + d) \div (2 * d)

Center(srcW, srcH) ==
  LET d  == Max(srcW, srcH)
      sw == roundScaled(srcW, d)
      sh == roundScaled(srcH, d)
  IN [srcW |-> srcW, srcH |-> srcH, scaledW |-> sw, scaledH |-> sh,
      offsetX |-> (targetSize - sw) \div 2, offsetY |-> (targetSize - sh) \div 2]

\* screenshot sides: small ones, the canvas side, and sides beyond it up to
\* aspect ratios past 2400 : 1
ScreenshotSides == 1..MaxSmallSide \cup {600, 1199, 1200, 1201, 2399, 2400, 2401, 4800}

CenterCall ==
  /\ ccCalls = <<>>
  /\ \E w \in ScreenshotSides, h \in ScreenshotSides : ccCalls' = <<Center(w, h)>>
  /\ UNCHANGED <<handlerVars, cfVars, eqVars, rpCalls, htCalls, upCalls, auCalls, ldCalls, cfAttempt, nvCalls, wasmVars>>

CenterNext == CenterCall

SpecCenter == RenderInit /\ [][CenterNext]_vars

(* --------------- renderWithCloudflare: one attempt in time ------------- *)
MaxClockSteps == 12
\* the clock of this model advances in steps of 5 s
ClockStepMs == 5000

\* params.timeout ?? 30000: the callers pass nothing or 45000
fetchTimeouts == {30000, 45000}

\* the loop body starts: the timer is armed, fetch is sent
AttemptStart ==
  /\ cfAttempt = <<>>
  /\ \E t \in fetchTimeouts :
       cfAttempt' = [phase |-> "fetch", timer |-> "armed", fetchTimeout |-> t,
                     elapsed |-> 0, ok |-> FALSE, result |-> "none"]
  /\ UNCHANGED <<handlerVars, cfVars, eqVars, rpCalls, htCalls, upCalls, auCalls, ldCalls, ccCalls, nvCalls, wasmVars>>

AttemptRunning == cfAttempt # <<>> /\ cfAttempt.phase \in {"fetch", "body"}

\* time passes while the attempt waits; an armed timer fires when it is due
ClockAdvances ==
  /\ AttemptRunning
  /\ cfAttempt.elapsed < MaxClockSteps * ClockStepMs
  /\ ~(cfAttempt.timer = "armed" /\ cfAttempt.elapsed >= cfAttempt.fetchTimeout)
  /\ cfAttempt' = [cfAttempt EXCEPT !.elapsed = @ + ClockStepMs]
  /\ UNCHANGED <<handlerVars, cfVars, eqVars, rpCalls, htCalls, upCalls, auCalls, ldCalls, ccCalls, nvCalls, wasmVars>>

\* setTimeout(() => controller.abort(), fetchTimeout): the pending fetch
\* rejects with an abort error and the catch block returns null
TimerFires ==
  /\ AttemptRunning
  /\ cfAttempt.timer = "armed"
  /\ cfAttempt.elapsed >= cfAttempt.fetchTimeout
  /\ cfAttempt' = [cfAttempt EXCEPT !.timer = "fired", !.phase = "done", !.result = "null"]
  /\ UNCHANGED <<handlerVars, cfVars, eqVars, rpCalls, htCalls, upCalls, auCalls, ldCalls, ccCalls, nvCalls, wasmVars>>

\* fetch resolves with the response (its headers); clearTimeout(timer)
FetchResolves ==
  /\ cfAttempt # <<>> /\ cfAttempt.phase = "fetch"
  /\ \E ok \in BOOLEAN :
       cfAttempt' = [cfAttempt EXCEPT !.timer = "cleared", !.phase = "body", !.ok = ok]
  /\ UNCHANGED <<handlerVars, cfVars, eqVars, rpCalls, htCalls, upCalls, auCalls, ldCalls, ccCalls, nvCalls, wasmVars>>

\* fetch rejects for a reason of its own
FetchRejects ==
  /\ cfAttempt # <<>> /\ cfAttempt.phase = "fetch"
  /\ cfAttempt' = [cfAttempt EXCEPT !.phase = "done", !.result = "null"]
  /\ UNCHANGED <<handlerVars, cfVars, eqVars, rpCalls, htCalls, upCalls, auCalls, ldCalls, ccCalls, nvCalls, wasmVars>>

\* response.arrayBuffer() (or response.text() of an error answer) completes
BodyRead ==
  /\ cfAttempt # <<>> /\ cfAttempt.phase = "body"
  /\ cfAttempt' = [cfAttempt EXCEPT !.phase = "done",
                                    !.result = IF cfAttempt.ok THEN "bytes" ELSE "null"]
  /\ UNCHANGED <<handlerVars, cfVars, eqVars, rpCalls, htCalls, upCalls, auCalls, ldCalls, ccCalls, nvCalls, wasmVars>>

\* reading the body throws
BodyThrows ==
  /\ cfAttempt # <<>> /\ cfAttempt.phase = "body"
  /\ cfAttempt' = [cfAttempt EXCEPT !.phase = "done", !.result = "null"]
  /\ UNCHANGED <<handlerVars, cfVars, eqVars, rpCalls, htCalls, upCalls, auCalls, ldCalls, ccCalls, nvCalls, wasmVars>>

AttemptNext ==
  \/ AttemptStart
  \/ ClockAdvances
  \/ TimerFires
  \/ FetchResolves
  \/ FetchRejects
  \/ BodyRead
  \/ BodyThrows

SpecAttempt == RenderInit /\ [][AttemptNext]_vars

(* ============ NodeVersionRepository.getCurrentVersions ================= *)
\* the longest result set of the node_version_history query
MaxRows == 2

ValidJson == "{\"network\":\"mainnet\"}"
ExtraInfoObject == [network |-> "mainnet"]

\* a column value that is a string or an already decoded object
Str(s) == [tag |-> "string", v |-> s]
Obj(o) == [tag |-> "object", v |-> o]
\* detected_at as the driver's Date or as the string a cached result holds
DateOf(iso) == [tag |-> "date", iso |-> iso]

\* the three version numbers of a row: all NULL, major only, 0.1, 27.1.0
VersionTriples ==
  { <<Null, Null, Null>>, <<Some(27), Null, Null>>,
    <<Some(0), Some(1), Null>>, <<Some(27), Some(1), Some(0)>> }

ComponentRows ==
  { [component_name |-> "bitcoind", detected_at |-> DateOf("2025-01-01T00:00:00.000Z")],
    [component_name |-> "counterparty", detected_at |-> Str("2025-01-01 00:00:00")] }

VersionRows ==
  { [component_name |-> c.component_name,
     version_string |-> "v",
     version_major |-> t[1], version_minor |-> t[2], version_revision |-> t[3],
     version_suffix |-> s,
     extra_info |-> x,
     detected_at |-> c.detected_at] :
      c \in ComponentRows, t \in VersionTriples,
      s \in {Null, Some("rc1")},
      x \in {Null, Str(ValidJson), Str("{oops"), Obj(ExtraInfoObject)} }

RowLists == UNION { [1..n -> VersionRows] : n \in 0..MaxRows }

\* what `await this.db.executeQueryWithCache(...)` does: it rejects, or it
\* resolves to something that is not an array (null, undefined, a result
\* object), or it resolves to the rows
QueryOutcomes ==
  {[kind |-> "throws"]}
    \cup {[kind |-> "value", v |-> v] : v \in {Null, Undefined, Obj([rows |-> <<>>])}}
    \cup {[kind |-> "rows", rows |-> rs] : rs \in RowLists}

\* JSON.parse: the decoded object, or a SyntaxError
JsonParse(s) ==
  IF s = ValidJson THEN [ok |-> TRUE, v |-> ExtraInfoObject] ELSE [ok |-> FALSE]

\* `x != null ? Number(x) : null` on a number, `x != null ? String(x) : null`
\* on a string
NullableOf(x) == IF x.tag \in {"null", "undefined"} THEN Null ELSE Some(x.v)

extraInfoOf(x) ==
  IF x.tag \in {"null", "undefined"} THEN [ok |-> TRUE, v |-> Null]
  ELSE IF x.tag = "string" THEN
    LET p == JsonParse(x.v) IN IF p.ok THEN [ok |-> TRUE, v |-> Obj(p.v)] ELSE p
  ELSE [ok |-> TRUE, v |-> x]

detectedAtOf(d) == IF d.tag = "date" THEN d.iso ELSE d.v

\* the callback of rows.map: the entry of a row, or the exception it throws
mapRow(row) ==
  LET x == extraInfoOf(row.extra_info) IN
  IF ~x.ok THEN [ok |-> FALSE]
  ELSE [ok |-> TRUE,
        entry |-> [component_name |-> row.component_name,
                   version_string |-> row.version_string,
                   version_major |-> NullableOf(row.version_major),
                   version_minor |-> NullableOf(row.version_minor),
                   version_revision |-> NullableOf(row.version_revision),
                   version_suffix |-> NullableOf(row.version_suffix),
                   extra_info |-> x.v,
                   detected_at |-> detectedAtOf(row.detected_at)]]

Returned(list) == [threw |-> FALSE, value |-> list]
Thrown == [threw |-> TRUE, value |-> <<>>]

\* the body of the try block: the query, the array test and the map
tryBody(q) ==
  IF q.kind = "throws" THEN Thrown
  ELSE IF q.kind # "rows" THEN Returned(<<>>)
  ELSE IF \E i \in 1..Len(q.rows) : ~mapRow(q.rows[i]).ok THEN Thrown
  ELSE Returned([i \in 1..Len(q.rows) |-> mapRow(q.rows[i]).entry])

\* the same function without its catch block
getCurrentVersionsUncaught(q) == tryBody(q)

getCurrentVersions(q) ==
  LET r == tryBody(q) IN IF r.threw THEN Returned(<<>>) ELSE r

VersionsCall ==
  /\ nvCalls = <<>>
  /\ \E q \in QueryOutcomes : nvCalls' = <<[query |-> q, out |-> getCurrentVersions(q)]>>
  /\ UNCHANGED <<handlerVars, cfVars, eqVars, rpCalls, htCalls, upCalls, auCalls, ldCalls, ccCalls, cfAttempt, wasmVars>>

VersionsNext == VersionsCall

SpecVersions == RenderInit /\ [][VersionsNext]_vars

(* ================================ claims =============================== *)
\* r is the first request and no other has started
RanAlone(r) == r = 1 /\ \A q \in Reqs : q > r => pc[q] = "idle"

IsFallbackRedirect(rp) ==
  rp.status = 302 /\ rp.location = FALLBACK_LOGO /\ rp.xfallback # ""

\* C1: whatever the collaborators do, throwing included, GET answers with a
\* 200 image/png response, a 302 to the fallback logo that carries an
\* X-Fallback reason, or a 302 to the CDN preview URL; a finished preview task
\* always leaves a response, never an exception or a 5xx status.
ThmC1_ImageOrRedirect ==
  \A r \in Reqs :
    /\ Finished(r) => resp[r] # NoResp
    /\ resp[r] # NoResp =>
         \/ resp[r].status = 200 /\ resp[r].ctype = "image/png"
         \/ IsFallbackRedirect(resp[r])
         \/ resp[r].status = 302 /\ resp[r].location = PreviewUrl

\* a collaborator threw inside the preview task and GET answered
WitC1_ThrowAnswered ==
  \E r \in Reqs : pc[r] = "rejected" /\ fault[r] = "render"
                  /\ IsFallbackRedirect(resp[r])

RetryPcs == {"x_invalidate", "x_render", "x_set"}

\* C3: a request that read a sentinel of age >= 3600s, once it has ended
\* (no store call having failed, no other request running), has called
\* renderPreview exactly once and leaves in the store the preview it rendered
\* or a sentinel with a fresh timestamp.
CexC3_ExpiredSentinelReplaced ==
  [][\A r \in Reqs :
       ( /\ pc[r] \in RetryPcs /\ Finished(r)' /\ fault'[r] # "store"
         /\ ~wasRendered[r] /\ RanAlone(r) )
       => /\ renders'[r] = 1
          /\ \/ store' = CachedPreview(r)
             \/ store'.kind = "failed" /\ store'.by = r
                /\ now - store'.timestamp < 3600 * 1000]_vars

\* C4: once a render on a cache miss has failed (null, or an exception of a
\* renderer) and the request has ended, the store holds a sentinel.
CexC4_FailedRenderLeavesSentinel ==
  \A r \in Reqs :
    ( /\ ~useS3Storage /\ Finished(r) /\ RanAlone(r)
      /\ wasRendered[r] /\ renders[r] = 1
      /\ result[r] \in {"null", "throw"} /\ fault[r] # "store" )
    => store.kind = "failed"

\* C5: no call of renderPreview ends with an exception.
CexC5_RenderPreviewNeverThrows ==
  \A r \in Reqs : result[r] # "throw"

\* C6: a request with refresh=true that ran alone leaves no entry stored by
\* an earlier request, on either backend, whatever its render gave.
CexC6_RefreshRemovesEntry ==
  \A r \in Reqs :
    (refresh[r] /\ Finished(r) /\ RanAlone(r) /\ fault[r] # "store")
    => /\ store.kind = "absent" \/ store.by = r
       /\ ~s3.present \/ s3.by = r

\* C7: fed the same requests and render outcomes, the two backends call
\* renderPreview on exactly the same requests.
CexC7_BackendsRenderAlike ==
  \A i \in 1..Len(eqLog) : eqLog[i].redis = eqLog[i].s3

\* C8: a response given while the preview task is still running is the
\* handler-timeout fallback (302 to the logo, no-cache), and a response that
\* is not the timeout fallback is the one the finished task resolved or
\* rejected with; a finished task always finds the request answered.
ThmC8_TimerRace ==
  \A r \in Reqs :
    /\ (Running(r) /\ resp[r] # NoResp) =>
         /\ resp[r].xfallback = "handler-timeout"
         /\ resp[r].status = 302 /\ resp[r].location = FALLBACK_LOGO
         /\ resp[r].cc = "no-cache, no-store"
    /\ resp[r].xfallback = "handler-timeout" => resp[r].cc = "no-cache, no-store"
    /\ (pc[r] = "done" /\ resp[r].xfallback # "handler-timeout") => resp[r] = taskResp[r]
    /\ Finished(r) => resp[r] # NoResp

\* the timer answered while the render was in flight
WitC8_AnsweredWhileRendering ==
  \E r \in Reqs : pc[r] \in {"r_render", "s_render"}
                  /\ resp[r].xfallback = "handler-timeout"

\* C9: the store never holds a sentinel written by a request that was
\* answered with the handler-timeout fallback.
CexC9_TimeoutLeavesNoSentinel ==
  \A r \in Reqs :
    resp[r].xfallback = "handler-timeout" => ~(store.kind = "failed" /\ store.by = r)

All5xx == \A i \in 1..Len(cfLog) : cfLog[i].kind = "response" /\ cfLog[i].status >= 500

\* C10: when every attempt is answered with a status >= 500, the call sleeps
\* 2000ms after the first attempt and 4000ms after the second, and ends only
\* after the third attempt, without a third sleep, returning null.
ThmC10_ThreeAttemptsOn5xx ==
  (cfConfigured /\ All5xx) =>
    /\ cfPc = "attempt" => Len(cfLog) = Len(cfSleeps) /\ Len(cfLog) <= 2
    /\ cfPc = "sleep" => Len(cfLog) = Len(cfSleeps) + 1
    /\ \A i \in 1..Len(cfSleeps) : cfSleeps[i] = 2000 * i
    /\ cfPc = "done" =>
         Len(cfLog) = 3 /\ cfSleeps = <<2000, 4000>> /\ cfResult = "null"

WitC10_ThreeAttempts ==
  cfPc = "done" /\ cfConfigured /\ Len(cfLog) = 3 /\ All5xx /\ cfResult = "null"

\* an attempt that ended with a non-success status below 500, or with the
\* abort / timeout error of the request's own AbortController
ClientErrorOrAbort(o) ==
  \/ o.kind = "response" /\ ~ResponseOk(o) /\ o.status < 500
  \/ o.kind = "error" /\ o.name \in {"AbortError", "TimeoutError"}

\* C11: an attempt that ends with a non-success status below 500 or with a
\* request-level abort/timeout error is the last one, whichever its number:
\* the call is over, has returned null, and has slept only before that attempt.
ThmC11_NoRetryOnClientErrorOrAbort ==
  \A i \in 1..Len(cfLog) :
    ClientErrorOrAbort(cfLog[i]) =>
      /\ i = Len(cfLog)
      /\ cfPc = "done" /\ cfResult = "null"
      /\ Len(cfSleeps) = i - 1

\* a second attempt aborted although its message also reads like a network error
WitC11_AbortOnSecondAttempt ==
  /\ cfPc = "done" /\ Len(cfLog) = 2 /\ Len(cfSleeps) = 1
  /\ cfLog[2].kind = "error" /\ cfLog[2].name = "AbortError"
  /\ "network" \in cfLog[2].msg

\* fetch failed below HTTP (connection refused, transport timeout): a
\* TypeError that is no abort, whatever its message says
TransportError(o) ==
  /\ o.kind = "error" /\ o.name = "TypeError"
  /\ "abort" \notin o.msg /\ "Abort" \notin o.msg

\* C12: whenever one of the first two attempts ends with a transport-level
\* error that is not an abort, the call goes on: it sleeps 2000ms after the
\* first such attempt, 4000ms after the second, and attempts again,
\* whatever the text of the error message.
CexC12_TransportErrorsRetried ==
  \A i \in 1..Len(cfLog) :
    (TransportError(cfLog[i]) /\ i <= maxRetries) =>
      \/ i = Len(cfLog) /\ cfPc = "sleep"
      \/ Len(cfSleeps) >= i /\ cfSleeps[i] = retryDelays[i]

\* step x occurs in the trace of a call
Has(trace, x) == \E i \in 1..Len(trace) : trace[i] = x

Svg == <<"image", "svg+xml">>

\* C13: for an image/svg+xml stamp whose markup has a foreignObject tag no
\* call of renderPreview reaches the vector rasterizer (WASM initialisation,
\* Resvg) nor any other local renderer, whether the remote renderer answers,
\* fails or is not configured.
ThmC13_ForeignObjectSkipsResvg ==
  \A i \in 1..Len(rpCalls) :
    LET e == rpCalls[i].env  t == rpCalls[i].out.trace IN
    (e.lookup = "found" /\ e.mime = Svg /\ e.fetch = "ok" /\ e.foreignObject) =>
      /\ ~Has(t, "resvg") /\ ~Has(t, "decode") /\ ~Has(t, "upscale")
      /\ ~Has(t, "waveform")
      /\ e.configured => Has(t, "cf")

\* the remote renderer was asked and failed, and the call ended with null
WitC13_RemoteFailedNoResvg ==
  \E i \in 1..Len(rpCalls) :
    LET e == rpCalls[i].env IN
    /\ e.lookup = "found" /\ e.mime = Svg /\ e.fetch = "ok" /\ e.foreignObject
    /\ e.configured /\ e.cf1 = "null"
    /\ rpCalls[i].out = R("null", <<"lookup", "fetch", "cf">>)

LocalSteps == {"decode", "upscale", "resvg", "waveform"}
HasAny(trace, xs) == \E i \in 1..Len(trace) : trace[i] \in xs

\* C14: with the stamp resolved, renderPreview picks its strategy from the
\* mimetype alone: image/* but svg starts with the raster fetch and never
\* rasterizes vectors or draws a waveform; image/svg+xml fetches and uses
\* Resvg or the browser; text/html uses only fetch and browser; audio/* only
\* draws the waveform; video/* only calls the browser; a null or any other
\* mimetype returns null having fetched, decoded and rendered nothing.
ThmC14_StrategyByMimetype ==
  \A i \in 1..Len(rpCalls) :
    LET e == rpCalls[i].env
        o == rpCalls[i].out
        t == o.trace
    IN e.lookup = "found" =>
         /\ (e.mime[1] = "image" /\ e.mime # Svg) =>
              t[2] = "fetch" /\ ~HasAny(t, {"resvg", "waveform"})
         /\ e.mime = Svg =>
              t[2] = "fetch" /\ ~HasAny(t, {"decode", "upscale", "waveform"})
         /\ e.mime = <<"text", "html">> => ~HasAny(t, LocalSteps)
         /\ e.mime[1] = "audio" => o = R("png", <<"lookup", "waveform">>)
         /\ e.mime[1] = "video" => ~HasAny(t, LocalSteps \cup {"fetch"})
         /\ (e.mime[1] \notin {"image", "audio", "video"} /\ e.mime # <<"text", "html">>) =>
              o = R("null", <<"lookup">>)

\* a stamp without mimetype was answered with null after the lookup alone
WitC14_NullMimetype ==
  \E i \in 1..Len(rpCalls) :
    /\ rpCalls[i].env.lookup = "found" /\ rpCalls[i].env.mime = <<"null", "">>
    /\ rpCalls[i].env.configured
    /\ rpCalls[i].out = R("null", <<"lookup">>)

Count(trace, x) == Cardinality({i \in 1..Len(trace) : trace[i] = x})

IsRaster(e) == e.lookup = "found" /\ e.mime[1] = "image" /\ e.mime # Svg
\* the fetched bytes could not be decoded (or the GIF had no frame)
DecodeFailed(e) ==
  e.fetch = "ok" /\ (e.decode = "throw" \/ (e.mime[2] = "gif" /\ e.decode = "noframes"))

\* C15: for a raster stamp whose bytes the decoder rejects, renderPreview
\* calls the browser path once and returns what it gives (null, a centered
\* preview, or its exception); after a successful upscale the browser is not
\* called; vector and audio stamps never go from a local renderer to the
\* browser.
ThmC15_RasterFallsBackToChromeOnce ==
  \A i \in 1..Len(rpCalls) :
    LET e == rpCalls[i].env
        o == rpCalls[i].out
        t == o.trace
    IN /\ (IsRaster(e) /\ DecodeFailed(e)) =>
            /\ Count(t, "cf") = (IF e.configured THEN 1 ELSE 0)
            /\ ~Has(t, "upscale")
            /\ o.res = IF ~e.configured \/ e.cf1 = "null" THEN "null"
                       ELSE IF e.center = "ok" THEN "png" ELSE "throw"
       /\ (IsRaster(e) /\ e.fetch = "ok" /\ ~DecodeFailed(e)) =>
            o = R("png", <<"lookup", "fetch", "decode", "upscale">>)
       /\ (e.lookup = "found" /\ ~IsRaster(e)) =>
            ~(HasAny(t, LocalSteps) /\ Has(t, "cf"))

\* an undecodable WebP was rendered by the browser and centered
WitC15_WebpViaChrome ==
  \E i \in 1..Len(rpCalls) :
    /\ rpCalls[i].env.mime = <<"image", "webp">> /\ rpCalls[i].env.decode = "throw"
    /\ rpCalls[i].out = R("png", <<"lookup", "fetch", "decode", "cf", "center">>)

\* the strategy of the stamp starts by fetching the source
FetchesSource(e) ==
  /\ e.lookup = "found"
  /\ \/ e.mime[1] = "image"
     \/ e.mime = <<"text", "html">> /\ e.configured

\* C16: when the source fetch rejects or answers non-2xx, the call produces
\* no preview and nothing is invoked after the fetch.
CexC16_FetchFailureEndsRender ==
  \A i \in 1..Len(rpCalls) :
    LET e == rpCalls[i].env  o == rpCalls[i].out IN
    (FetchesSource(e) /\ e.fetch # "ok") =>
      o.res # "png" /\ o.trace = <<"lookup", "fetch">>

\* C17: for every decoded source of w x h pixels the upscale uses
\* scale = min(max(2, floor(1200 / max(w, h))), floor(1200 / w), floor(1200 / h));
\* the scaled image fits the canvas, the offsets are floor((1200 - scale * side) / 2)
\* and are not negative, every coordinate the loop computes is written and lies
\* in 1..1200; a 64 x 64 source gets scale 18 and offsets 24.
ThmC17_UpscaleFitsCanvas ==
  \A i \in 1..Len(upCalls) :
    LET u == upCalls[i]
        w == u.width
        h == u.height
        byMax == IF 1200 \div Max(w, h) >= 2 THEN 1200 \div Max(w, h) ELSE 2
    IN /\ u.scale = Min(byMax, Min(1200 \div w, 1200 \div h))
       /\ u.scale * w <= 1200 /\ u.scale * h <= 1200
       /\ u.offsetX = (1200 - u.scale * w) \div 2 /\ u.offsetX >= 0
       /\ u.offsetY = (1200 - u.scale * h) \div 2 /\ u.offsetY >= 0
       /\ u.writtenX = u.computedX /\ u.writtenX \subseteq 1..1200
       /\ u.writtenY = u.computedY /\ u.writtenY \subseteq 1..1200
       /\ (w = 64 /\ h = 64) => u.scale = 18 /\ u.offsetX = 24 /\ u.offsetY = 24

\* the 64 x 64 source of the end-to-end example, filling columns 25..1176
WitC17_Source64 ==
  \E i \in 1..Len(upCalls) :
    /\ upCalls[i].width = 64 /\ upCalls[i].height = 64
    /\ upCalls[i].scale = 18 /\ upCalls[i].writtenX = 25..1176

\* an iframe with a quoted src, no canvas / animation / async marker, < 500 chars
SimpleIframeDoc(d) ==
  /\ d.iframe \in {"rooted", "absolute"}
  /\ ~d.canvas /\ ~d.animation /\ ~d.asyncLoad /\ ~d.long

\* C18: for every such document and every stamp_url the first remote call
\* is in URL mode, aimed at the iframe's src (origin-prefixed when
\* root-relative), with a post-load delay of 3000ms.
CexC18_SimpleIframeRendersTarget ==
  \A i \in 1..Len(htCalls) :
    LET d == htCalls[i].doc  c == htCalls[i].calls[1] IN
    SimpleIframeDoc(d) =>
      /\ c.mode = "url"
      /\ c.target = IF d.iframe = "rooted" THEN "origin+iframeSrc" ELSE "iframeSrc"
      /\ c.delay = 3000

\* C19: the first remote call has delay 8000ms and timeout 45000ms whenever
\* the document, not being a simple iframe wrapper, has a canvas, animation
\* or async-load marker or is classified recursive; otherwise its delay is
\* 3000ms.
CexC19_ComplexGetsLongDelay ==
  \A i \in 1..Len(htCalls) :
    LET d == htCalls[i].doc  c == htCalls[i].calls[1] IN
    IF ~isSimpleIframe(d) /\ (d.canvas \/ d.animation \/ d.asyncLoad \/ isRecursive(d))
    THEN c.delay = 8000 /\ c.timeout = 45000
    ELSE c.delay = 3000

\* C20: a second remote call is made exactly when the first call was in
\* inline mode, the content is not recursive and fewer than 5000 bytes came
\* back; it is the URL-mode call on the content URL with delay 8000ms and
\* timeout 45000ms; there is never a third call, and none after a first call
\* that returned nothing.
ThmC20_OneUrlModeRetry ==
  \A i \in 1..Len(htCalls) :
    LET h == htCalls[i]
        d == h.doc
        recursive == d.iframe # "none" \/ d.externalRef \/ d.stampRef
    IN /\ Len(h.calls) \in {1, 2}
       /\ Len(h.calls) = 2 <=>
            (h.calls[1].mode = "html" /\ ~recursive /\ h.first = "small")
       /\ Len(h.calls) = 2 =>
            h.calls[2] = CfParams("url", "contentUrl", 8000, 45000)
       /\ (recursive \/ h.first = "null") => Len(h.calls) = 1

\* an undersized inline render was retried in URL mode and then succeeded
WitC20_RetriedAndRendered ==
  \E i \in 1..Len(htCalls) :
    /\ htCalls[i].first = "small" /\ htCalls[i].second = "big"
    /\ Len(htCalls[i].calls) = 2 /\ htCalls[i].calls[1].mode = "html"
    /\ htCalls[i].res = "png"

CexC22_NoInitAfterSuccess ==
  /\ \A i \in 1..Len(initCalls) : ~initCalls[i].afterSuccess
  /\ \A i \in 1..Len(engineUses) : engineUses[i].ready

\* C23: on Redis, a request with refresh=true that runs concurrently with a
\* request without refresh for the same identifier performs its own
\* invalidation followed by its own call of renderPreview; its response is
\* never the entry that the other request's render wrote.
CexC23_RefreshRendersItself ==
  ~useS3Storage =>
    \A r \in Reqs :
      (pc[r] = "done" /\ refresh[r]) =>
        /\ renders[r] >= 1
        /\ ~(taskResp[r].status = 200 /\ store.kind = "png" /\ store.by # r)

\* C24: on either backend, the first request for an identifier that no store
\* holds, whose render yields nothing (its mimetype matches no strategy), is
\* answered with a 302 to the fallback logo carrying
\* X-Fallback: render-failed-or-unsupported.
CexC24_UnsupportedFirstRequest ==
  \A r \in Reqs :
    (RanAlone(r) /\ ticks = 0 /\ pc[r] = "done" /\ renders[r] = 1 /\ result[r] = "null") =>
      /\ taskResp[r].status = 302
      /\ taskResp[r].location = FALLBACK_LOGO
      /\ taskResp[r].xfallback = "render-failed-or-unsupported"

\* C25: there is no single-flight. Two concurrent requests for the same
\* uncached identifier can both be inside renderPreview; each cache write or
\* upload replaces the entry with the writer's own value, whatever another
\* request wrote before, and the entry changes in no other way than by such
\* a write or by the invalidation of a request that has not written yet: once
\* the requests are over the entry is the one of the last write.
ThmC25_LastWriteWins ==
  [][ /\ \A r \in Reqs :
           writes'[r] = writes[r] + 1 =>
             IF useS3Storage THEN s3' = Uploaded(r)
             ELSE store'.kind # "absent" /\ store'.by = r
      /\ (store' # store \/ s3' # s3) =>
           \/ \E r \in Reqs : writes'[r] = writes[r] + 1
           \/ \E r \in Reqs : /\ pc[r] \in {"r_invalidate", "x_invalidate"}
                              /\ pc'[r] # pc[r]
                              /\ writes[r] = 0
                              /\ store' = [kind |-> "absent", timestamp |-> 0, by |-> 0]
    ]_vars

\* request 1 has rendered and written its preview while request 2, which
\* missed the cache before that write, is inside its own render callback
WitC25_BothRenderConcurrently ==
  /\ ~useS3Storage
  /\ store = [kind |-> "png", timestamp |-> 0, by |-> 1]
  /\ pc[1] = "done" /\ renders[1] = 1 /\ writes[1] = 1
  /\ pc[2] = "r_render" /\ ~refresh[1] /\ ~refresh[2]

\* C26: in every response the one-year immutable Cache-Control appears only
\* on a 200 image/png response whose bytes are a rendered preview (the stored
\* one, or the one this request has just rendered); every redirect to the
\* fallback logo, whatever its reason, carries the one-day directive or
\* no-cache, neither of them immutable.
ThmC26_ImmutableOnlyOnRenderedPng ==
  \A r \in Reqs :
    resp[r].status # 0 =>
      /\ resp[r].cc = "public, max-age=31536000, immutable" =>
           /\ resp[r].status = 200
           /\ resp[r].ctype = "image/png"
           /\ store.kind = "png" \/ result[r] = "png"
      /\ resp[r].status = 200 => resp[r].cc = "public, max-age=31536000, immutable"
      /\ (resp[r].status = 302 /\ resp[r].xfallback # "") =>
           /\ resp[r].xfallback \in {"cached-render-failure", "render-failed-or-unsupported",
                                     "render-failed-retry", "handler-timeout", "general-error"}
           /\ resp[r].cc \in {"public, max-age=86400", "no-cache, no-store"}

\* request 1 was answered by the handler timer while request 2 is answered
\* with the preview it rendered
WitC26_TimeoutAndRendered ==
  /\ resp[1].xfallback = "handler-timeout"
  /\ resp[1].cc = "no-cache, no-store"
  /\ resp[2].status = 200
  /\ resp[2].xcache = "rendered"
  /\ resp[2].cc = "public, max-age=31536000, immutable"

\* C27: the object returned by generateStampJsonLd has the key isPartOf
\* exactly when collectionInfo is an object (neither null nor undefined), the
\* key offers exactly when lowestPriceDispenser is an object, the key
\* contentSize exactly when file_size_bytes is not null (a size of 0
\* included); creator.name is creator_name when the row has a name (non-null,
\* non-empty) and the creator address otherwise.
ThmC27_OptionalKeys ==
  \A i \in 1..Len(ldCalls) :
    LET c == ldCalls[i]
        keys == DOMAIN c.jsonLd
    IN /\ ("isPartOf" \in keys) <=> (c.collectionInfo \notin {Null, Undefined})
       /\ ("offers" \in keys) <=> (c.lowestPriceDispenser \notin {Null, Undefined})
       /\ ("contentSize" \in keys) <=> (c.stamp.file_size_bytes # Null)
       /\ c.jsonLd.creator.name =
            IF c.stamp.creator_name \in {Null, Some("")}
            THEN c.stamp.creator ELSE c.stamp.creator_name.v

\* a row with no name and a size of 0 bytes, in a collection, without dispenser
WitC27_ZeroSizeNoName ==
  /\ Len(ldCalls) = 1
  /\ ldCalls[1].stamp.creator_name = Null
  /\ ldCalls[1].stamp.file_size_bytes = Some(0)
  /\ ldCalls[1].collectionInfo.tag = "value"
  /\ ldCalls[1].lowestPriceDispenser = Null
  /\ ldCalls[1].jsonLd.contentSize = <<0, " bytes">>
  /\ ldCalls[1].jsonLd.creator.name = "bc1qcreator"
  /\ "offers" \notin DOMAIN ldCalls[1].jsonLd

\* C28: whatever the attempts of one renderWithCloudflare call end with, the
\* call makes at most 3 attempts, 5xx answers and retried network errors
\* counting together; a successful attempt is the last one and its bytes are
\* the result; the call sleeps only between two attempts, the i-th sleep
\* lasting 2000 * i ms; without worker configuration it makes no attempt and
\* returns null.
ThmC28_BoundedAttempts ==
  /\ Len(cfLog) <= 3
  /\ \A i \in 1..Len(cfLog) :
       (cfLog[i].kind = "response" /\ cfLog[i].status \in 200..299) =>
         i = Len(cfLog) /\ cfPc = "done" /\ cfResult = "bytes"
  /\ cfResult = "bytes" =>
       /\ Len(cfLog) >= 1
       /\ cfLog[Len(cfLog)].kind = "response" /\ cfLog[Len(cfLog)].status \in 200..299
  /\ cfPc = "sleep" => Len(cfLog) <= 2 /\ Len(cfSleeps) = Len(cfLog) - 1
  /\ cfPc = "attempt" => Len(cfSleeps) = Len(cfLog)
  /\ cfPc = "done" /\ Len(cfLog) >= 1 => Len(cfSleeps) = Len(cfLog) - 1
  /\ \A i \in 1..Len(cfSleeps) : cfSleeps[i] = 2000 * i
  /\ ~cfConfigured => cfLog = <<>> /\ cfSleeps = <<>> /\ cfResult \in {"none", "null"}
                      /\ (cfPc = "done" => cfResult = "null")

\* a 503, then a retried network error, then success on the third attempt
WitC28_MixedRetriesThenBytes ==
  /\ cfPc = "done" /\ cfResult = "bytes"
  /\ Len(cfLog) = 3
  /\ cfLog[1].kind = "response" /\ cfLog[1].status = 503
  /\ cfLog[2].kind = "error" /\ cfLog[2].name = "TypeError" /\ cfLog[2].msg = {"network"}
  /\ cfLog[3].status = 200
  /\ cfSleeps = <<2000, 4000>>

\* C29: for a text/html stamp the render yields a preview exactly when the
\* worker is configured, the document was fetched, the last remote render
\* returned at least 5000 bytes and the compositing succeeded; it makes at
\* most 2 calls of renderWithCloudflare, hence at most 6 HTTP attempts; in
\* every other case, an exception while fetching or compositing included,
\* it returns null and lets no exception out.
ThmC29_HtmlPreviewOnlyFromBigRender ==
  \A i \in 1..Len(rpCalls) :
    LET e == rpCalls[i].env
        out == rpCalls[i].out
        cfs == Cardinality({k \in 1..Len(out.trace) : out.trace[k] = "cf"})
        last == IF e.cf1 = "small" /\ ~e.recursive THEN e.cf2 ELSE e.cf1
    IN (e.lookup = "found" /\ e.mime = <<"text", "html">>) =>
         /\ out.res \in {"png", "null"}
         /\ out.res = "png" <=>
              (e.configured /\ e.fetch = "ok" /\ last = "big" /\ e.center = "ok")
         /\ cfs <= 2
         /\ cfs * (maxRetries + 1) <= 6
         /\ out.res = "png" => cfs >= 1

\* an undersized second render, and a compositing exception after a good one
WitC29_SmallAfterRetry ==
  \E i \in 1..Len(rpCalls) :
    LET e == rpCalls[i].env IN
    /\ e.lookup = "found" /\ e.mime = <<"text", "html">> /\ e.configured
    /\ e.fetch = "ok" /\ ~e.recursive /\ e.cf1 = "small" /\ e.cf2 = "small"
    /\ e.center = "ok"
    /\ rpCalls[i].out.res = "null"
    /\ rpCalls[i].out.trace = <<"lookup", "fetch", "cf", "cf">>

\* C30, as stated: on Redis the X-Cache header of every 200 response is
\* "rendered" exactly when the request ran the render on a cache miss, and
\* "redis-hit" in every other case.
CexC30_RenderedOrHit ==
  ~useS3Storage =>
    \A r \in Reqs :
      taskResp[r].status = 200 =>
        /\ taskResp[r].xcache = "rendered" <=> (wasRendered[r] /\ renders[r] >= 1)
        /\ taskResp[r].xcache = "redis-hit" <=> ~(wasRendered[r] /\ renders[r] >= 1)

\* C30, amended: on Redis a request that finds a stored preview answers 200
\* with it and calls renderPreview not at all; the X-Cache header of a 200
\* response is "rendered" exactly when the request ran the render on a cache
\* miss, "redis-hit" exactly when it ran no render, and
\* "retry-after-failure" exactly when it re-rendered after an expired
\* failure marker.
ThmC30_XCacheProvenance ==
  ~useS3Storage =>
    \A r \in Reqs :
      /\ taskResp[r].status = 200 =>
           /\ taskResp[r].xcache \in {"rendered", "redis-hit", "retry-after-failure"}
           /\ taskResp[r].xcache = "rendered" <=> (wasRendered[r] /\ renders[r] = 1)
           /\ taskResp[r].xcache = "redis-hit" <=> renders[r] = 0
           /\ taskResp[r].xcache = "retry-after-failure" <=> (~wasRendered[r] /\ renders[r] = 1)
           /\ renders[r] = 0 => store.kind = "png" /\ store.by # r
      /\ (pc[r] = "done" /\ renders[r] = 0 /\ store.kind = "png") =>
           taskResp[r].status = 200 /\ taskResp[r].xcache = "redis-hit"

\* request 2 finds the preview that request 1 rendered and stored
WitC30_HitOnOthersPreview ==
  /\ ~useS3Storage
  /\ pc[2] = "done"
  /\ store = [kind |-> "png", timestamp |-> 0, by |-> 1]
  /\ renders[2] = 0
  /\ taskResp[2].status = 200
  /\ taskResp[2].xcache = "redis-hit"

\* C31: for every screenshot of width and height at least 1, both scaled
\* dimensions are at least 1 and at most 1200, the larger one is exactly
\* 1200, and both offsets are floor((1200 - scaled) / 2), not negative.
CexC31_ScaledSidesWithinCanvas ==
  \A i \in 1..Len(ccCalls) :
    LET c == ccCalls[i] IN
    /\ c.scaledW >= 1 /\ c.scaledW <= 1200
    /\ c.scaledH >= 1 /\ c.scaledH <= 1200
    /\ (IF c.srcW >= c.srcH THEN c.scaledW ELSE c.scaledH) = 1200
    /\ c.offsetX = (1200 - c.scaledW) \div 2 /\ c.offsetX >= 0
    /\ c.offsetY = (1200 - c.scaledH) \div 2 /\ c.offsetY >= 0

\* C32: whatever its collaborators do, a call of renderPreview consists of
\* the stamp lookup, source fetches, decoding, local rendering, remote
\* renders and compositing only: none of its steps reads, writes or
\* invalidates the cache store or the object store.
ThmC32_RenderersTouchNoStore ==
  \A i \in 1..Len(rpCalls) :
    \A k \in 1..Len(rpCalls[i].out.trace) :
      /\ rpCalls[i].out.trace[k] \in
           {"lookup", "fetch", "decode", "upscale", "resvg", "cf", "center", "waveform"}
      /\ rpCalls[i].out.trace[k] \notin
           {"cache-get", "cache-set", "invalidate", "exists", "upload"}

\* an audio stamp rendered locally, and nothing else done
WitC32_AudioRendered ==
  \E i \in 1..Len(rpCalls) :
    /\ rpCalls[i].env.lookup = "found"
    /\ rpCalls[i].env.mime[1] = "audio"
    /\ rpCalls[i].out = [res |-> "png", trace |-> <<"lookup", "waveform">>]

\* C33: for every decoded source of width and height at least 1, sources
\* larger than 1200 on a side included, the scale factor of the upscale is at
\* least 1 and every source column and row is copied to at least one canvas
\* column and row.
CexC33_ScaleAtLeastOne ==
  \A i \in 1..Len(upCalls) :
    /\ upCalls[i].scale >= 1
    /\ Cardinality(upCalls[i].writtenX) >= upCalls[i].width
    /\ Cardinality(upCalls[i].writtenY) >= upCalls[i].height

\* C34: on Redis, whenever a request answers 200 with
\* X-Cache: retry-after-failure, the cache entry right after the request is a
\* rendered preview and not a failure marker, whatever other requests for
\* the identifier did meanwhile.
CexC34_RetrySuccessIsCached ==
  ~useS3Storage =>
    \A r \in Reqs :
      (pc[r] = "done" /\ taskResp[r].status = 200
         /\ taskResp[r].xcache = "retry-after-failure") =>
        store.kind = "png"

ThmC36_CdnRedirectOnlyForStoredObject ==
  \A r \in Reqs :
    /\ taskResp[r].location = "cdn:/previews/stamp.png" =>
         /\ useS3Storage /\ taskResp[r].status = 302
         /\ s3.present
         /\ \/ taskResp[r].xcache = "s3-hit" /\ renders[r] = 0 /\ ~refresh[r]
            \/ /\ taskResp[r].xcache = "s3-uploaded"
               /\ result[r] = "png" /\ writes[r] = 1 /\ s3.by = r
    /\ (useS3Storage /\ (result[r] \in {"null", "throw"} \/ fault[r] # "none")) =>
         /\ taskResp[r].location # "cdn:/previews/stamp.png"
         /\ resp[r].location # "cdn:/previews/stamp.png"

\* the render succeeded and the upload threw: the catch block answers
WitC36_UploadFailed ==
  /\ useS3Storage
  /\ pc[1] = "rejected" /\ result[1] = "png" /\ fault[1] = "store"
  /\ ~s3.present
  /\ resp[1].xfallback = "general-error"

\* C37: an attempt is bounded by the per-call timeout from the sending of the
\* request to the end of the body read: it is never still in progress past
\* the timeout, and it yields bytes only within it.
CexC37_AttemptBoundedByTimeout ==
  cfAttempt # <<>> =>
    /\ cfAttempt.phase \in {"fetch", "body"} => cfAttempt.elapsed <= cfAttempt.fetchTimeout
    /\ cfAttempt.result = "bytes" => cfAttempt.elapsed <= cfAttempt.fetchTimeout

====
